---- MODULE Spec2Model ----
(***************************************************************************)
(* Model of headset_control.c (btsdk audio headset standalone):            *)
(*   - the MIC data ring buffer (headset_control_mic_data) with its three  *)
(*     operations mic_data_add / mic_data_add_callback / mic_data_reset,   *)
(*   - the local IRK cache (local_irk_info) with restore / update and the  *)
(*     identity-key request event,                                         *)
(*   - the start-up path (START command, BTM_ENABLED_EVT).                 *)
(*                                                                         *)
(* Three specifications share the variables:                               *)
(*   SpecRing  every ring handler is one atomic step (calls in sequence),  *)
(*   SpecConc  the three execution contexts interleave statement by        *)
(*             statement (command context, audio-pull context,             *)
(*             management-event context),                                  *)
(*   Spec      the start-up path and the key store, one step per handler.  *)
(***************************************************************************)
EXTENDS Integers, Sequences, FiniteSets, TLC

(***************************************************************************)
(* Bounds.  The ring capacity is 1024 in the source (line 133); the model  *)
(* keeps every formula of the code in terms of the capacity and checks it  *)
(* with a small capacity.                                                  *)
(***************************************************************************)
HEADSET_CONTROL_MIC_DATA_BUFFER_LEN == 3

\* longest MIC_DATA payload drawn (longer than the capacity, so that a chunk
\* can exceed the free room of an empty ring)
MaxLen == 4

\* largest length the audio path asks the callback for
MaxReq == 4

\* the same two bounds under SpecConc, where every statement is a step
ConcMaxLen == 2

ConcMaxReq == 2

\* START commands explored
MaxStarts == 2

N == HEADSET_CONTROL_MIC_DATA_BUFFER_LEN

\* Byte values.  The code never looks at the value of a byte it moves, so two
\* values tell every position of a chunk from every other: 0 (also the value
\* reset and the padding write) and 1.
Byte == {0, 1}

\* Key blobs (BTM_SECURITY_LOCAL_KEY_DATA_LEN bytes, compared and copied whole):
\* "zero" is the all-zero blob of the static initialiser.
Keys == {"zero", "k1", "k2"}

\* the payloads p_data[0..data_len-1] a command can carry
Chunks == UNION {[1..n -> Byte] : n \in 0..MaxLen}

(***************************************************************************)
(* uint32_t.  TLC's integers are 32-bit signed, so a uint32_t word is kept *)
(* as its two's complement reading: a value v >= 2^31 is held as v - 2^32. *)
(* Addition and subtraction of words are then integer addition and         *)
(* subtraction (no operand of the model comes near +-2^31), and only the   *)
(* comparisons differ: they are the unsigned ones below.                   *)
(***************************************************************************)
ULT(a, b) == IF (a >= 0) = (b >= 0) THEN a < b ELSE a >= 0

ULE(a, b) == a = b \/ ULT(a, b)

UGE(a, b) == ULE(b, a)

\* uint16_t conversion of the 32-bit payload length at the call in line 854
UINT16 == 65536

ToU16(x) == x % UINT16

\* wiced_result_t: WICED_BT_SUCCESS is 0, the value the static initialiser
\* { 0 } of local_irk_info leaves in local_irk_info.result
WICED_BT_SUCCESS == 0

WICED_BT_ERROR == 1

WICED_BT_NO_RESOURCES == 2

VARIABLES
    headset_control_mic_data,  \* [p_mutex, buffer, data_len, index_start, index_end]
    local_irk_info,            \* [local_irk, result]
    nvram,                     \* HEADSET_NVRAM_ID_LOCAL_IRK item: "none" or a key
    boot,                      \* [heap, stack, callback]: start-up progress
    mutex_owner,               \* holder of *p_mutex: "none" or a context
    pc,                        \* [context -> label]: position of each context
    loc,                       \* locals of the calls in progress
    out,                       \* the p_data area handed to the callback
    last,                      \* the last handler run, its inputs and results
    pending,                   \* bytes accepted and not yet delivered (monitor)
    fifo_ok,                   \* FALSE once a delivery was not the head of pending
    seam,                      \* bytes N-1 and 0 were stored by one add
    irk_ok_ever,               \* a restore or an update has succeeded
    irk_last,                  \* what the latest restore or successful update left:
                               \* "none" (neither has run), "success" or "failure"
    build,                     \* [FASTPAIR_ENABLE]: the compile-time switches
    attempt                    \* [peer -> stage of its pairing attempt] (monitor)

vars == <<headset_control_mic_data, local_irk_info, nvram, boot, mutex_owner,
          pc, loc, out, last, pending, fifo_ok, seam, irk_ok_ever, irk_last, build,
          attempt>>

ringVars == <<headset_control_mic_data, out, pending, fifo_ok, seam>>

concVars == <<mutex_owner, pc, loc>>

keyVars == <<local_irk_info, nvram, boot, irk_ok_ever, irk_last>>

buildVars == <<build>>

pairVars == <<attempt>>

Min(a, b) == IF a <= b THEN a ELSE b

(***************************************************************************)
(* memcpy / memset on the ring storage (indices 0..N-1) and on p_data      *)
(* (a sequence, p_data[k] of the code is element k+1).                     *)
(***************************************************************************)
\* memcpy(&buffer[dst], &src[off], n)
MemcpyToBuffer(buffer, dst, src, off, n) ==
    [i \in 0..(N - 1) |->
        IF dst <= i /\ i < dst + n THEN src[off + (i - dst) + 1] ELSE buffer[i]]

\* memcpy(&p_data[dst], &buffer[src], n)
MemcpyFromBuffer(p_data, dst, buffer, src, n) ==
    [k \in 1..Len(p_data) |->
        IF dst < k /\ k <= dst + n THEN buffer[src + (k - 1 - dst)] ELSE p_data[k]]

\* memset(&p_data[dst], 0, n)
MemsetZero(p_data, dst, n) ==
    [k \in 1..Len(p_data) |-> IF dst < k /\ k <= dst + n THEN 0 ELSE p_data[k]]

ZeroBuffer == [i \in 0..(N - 1) |-> 0]

(***************************************************************************)
(* headset_control_mic_data_reset                                          *)
(***************************************************************************)
ResetMemset(md) == [md EXCEPT !.buffer = ZeroBuffer]

\* (mutant) the length is left as it was
ResetDataLen_Kept(md) == md

ResetDataLen(md) == [md EXCEPT !.data_len = 0]

ResetIndexStart(md) == [md EXCEPT !.index_start = 0]

ResetIndexEnd(md) == [md EXCEPT !.index_end = 0]

mic_data_reset(md) == ResetIndexEnd(ResetIndexStart(ResetDataLen(ResetMemset(md))))

(***************************************************************************)
(* headset_control_mic_data_add, statement by statement                    *)
(***************************************************************************)
\* line 940
AddIsFull(md) == md.data_len = N

\* (mutant) the room left is not taken into account
AddCount_IgnoresRoom(md, len) == IF ULE(len, N) THEN len ELSE N

\* lines 947-955
AddCount(md, len) ==
    IF ULE(len, N - md.data_len) THEN len ELSE N - md.data_len

\* line 958: the chunk fits before the end of the storage
AddFits(md, fill) == UGE(N - md.index_end, fill)

\* (mutant) the second segment is taken from the start of p_data again
AddCopy_SecondFromZero(md, p_data, fill) ==
    IF UGE(N - md.index_end, fill)
    THEN [md EXCEPT !.buffer = MemcpyToBuffer(md.buffer, md.index_end, p_data, 0, fill)]
    ELSE [md EXCEPT !.buffer =
            MemcpyToBuffer(
                MemcpyToBuffer(md.buffer, md.index_end, p_data, 0, N - md.index_end),
                0, p_data, 0, fill - (N - md.index_end))]

\* lines 957-973
AddCopy(md, p_data, fill) ==
    IF AddFits(md, fill)
    THEN [md EXCEPT !.buffer = MemcpyToBuffer(md.buffer, md.index_end, p_data, 0, fill)]
    ELSE [md EXCEPT !.buffer =
            MemcpyToBuffer(
                MemcpyToBuffer(md.buffer, md.index_end, p_data, 0, N - md.index_end),
                0, p_data, N - md.index_end, fill - (N - md.index_end))]

\* line 976
AddDataLen(md, fill) == [md EXCEPT !.data_len = md.data_len + fill]

\* line 978
AddIndexEnd(md, fill) == [md EXCEPT !.index_end = md.index_end + fill]

\* line 979
AddMustWrap(md) == UGE(md.index_end, N)

\* line 981
AddWrap(md) == [md EXCEPT !.index_end = md.index_end - N]

\* lines 978-982
AddAdvance(md, fill) ==
    LET m == AddIndexEnd(md, fill) IN IF AddMustWrap(m) THEN AddWrap(m) ELSE m

\* the whole body between lock and unlock, lines 939-982
mic_data_add(md, p_data, len) ==
    IF AddIsFull(md) THEN md
    ELSE LET fill == AddCount(md, len)
         IN AddAdvance(AddDataLen(AddCopy(md, p_data, fill), fill), fill)

(***************************************************************************)
(* headset_control_mic_data_add_callback, statement by statement           *)
(***************************************************************************)
\* line 1000
CbIsEmpty(md) == md.data_len = 0

\* lines 1007-1015
CbCount(md, len) == IF UGE(md.data_len, len) THEN len ELSE md.data_len

\* line 1018
CbFits(md, fill) == UGE(N - md.index_start, fill)

\* (mutant) the second segment lands at the start of p_data, over the first
CbCopy_SecondAtZero(md, p_data, fill) ==
    IF UGE(N - md.index_start, fill)
    THEN MemcpyFromBuffer(p_data, 0, md.buffer, md.index_start, fill)
    ELSE MemcpyFromBuffer(
            MemcpyFromBuffer(p_data, 0, md.buffer, md.index_start, N - md.index_start),
            0, md.buffer, 0, fill - (N - md.index_start))

\* lines 1017-1033
CbCopy(md, p_data, fill) ==
    IF CbFits(md, fill)
    THEN MemcpyFromBuffer(p_data, 0, md.buffer, md.index_start, fill)
    ELSE MemcpyFromBuffer(
            MemcpyFromBuffer(p_data, 0, md.buffer, md.index_start, N - md.index_start),
            N - md.index_start, md.buffer, 0, fill - (N - md.index_start))

\* (mutant) the tail of the area is left as it was
CbPad_None(p_data, fill, len) == p_data

\* lines 1035-1039
CbPad(p_data, fill, len) ==
    IF ULT(fill, len) THEN MemsetZero(p_data, fill, len - fill) ELSE p_data

\* line 1042
CbDataLen(md, fill) == [md EXCEPT !.data_len = md.data_len - fill]

\* line 1044
CbIndexStart(md, fill) == [md EXCEPT !.index_start = md.index_start + fill]

\* line 1045
CbMustWrap(md) == UGE(md.index_start, N)

\* line 1047
CbWrap(md) == [md EXCEPT !.index_start = md.index_start - N]

\* lines 1044-1048
CbAdvance(md, fill) ==
    LET m == CbIndexStart(md, fill) IN IF CbMustWrap(m) THEN CbWrap(m) ELSE m

\* the ring after the whole body, lines 999-1048
mic_data_add_callback_ring(md, len) ==
    IF CbIsEmpty(md) THEN md
    ELSE LET fill == CbCount(md, len) IN CbAdvance(CbDataLen(md, fill), fill)

\* (mutant) the area is cleared before the empty check
mic_data_add_callback_out_ZeroFirst(md, p_data, len) ==
    IF md.data_len = 0 THEN MemsetZero(p_data, 0, len)
    ELSE LET fill == CbCount(md, len) IN CbPad(CbCopy(md, p_data, fill), fill, len)

\* the p_data area after the whole body
mic_data_add_callback_out(md, p_data, len) ==
    IF CbIsEmpty(md) THEN p_data
    ELSE LET fill == CbCount(md, len) IN CbPad(CbCopy(md, p_data, fill), fill, len)

\* the return value, lines 1004 and 1052
mic_data_add_callback_ret(md) == ~CbIsEmpty(md)

(***************************************************************************)
(* Initial states.  Init is the state of the statics at boot (lines 226    *)
(* and 235: both initialised with { 0 }, p_default_heap NULL).  InitUp is  *)
(* the state Spec reaches from Init by a START command and a successful    *)
(* BTM_ENABLED_EVT (mutex created, callback registered, IRK item absent    *)
(* from NVRAM): the ring specifications start there.                       *)
(***************************************************************************)
\* line 226: local_irk_info = { 0 }
InitialIrkResult == 0

\* the remote devices an event can name (bd_addr)
Peers == {"peer1", "peer2"}

NoCall == [op |-> "none", len |-> 0, fill |-> 0, wrap |-> FALSE, ret |-> FALSE,
           area |-> <<>>, seam |-> FALSE, after_reset |-> FALSE, key_in |-> "zero",
           key |-> "zero", result |-> WICED_BT_SUCCESS, wrote |-> FALSE,
           bd_addr |-> "none", pairing_allowed |-> FALSE, seeker |-> FALSE,
           just_works |-> FALSE, numeric_value |-> 0, calls |-> <<>>,
           answer |-> <<>>, outcome |-> "none", raw_len |-> 0, p_mutex |-> "none",
           transport |-> "none", pairing_result |-> 0]

NoLocals == [p_data |-> <<>>, add_len |-> 0, add_fill |-> 0,
             cb_len |-> 0, cb_fill |-> 0]

Contexts == {"command", "audio", "management"}

InitCommon ==
    /\ mutex_owner = "none"
    /\ pc = [c \in Contexts |-> "idle"]
    /\ loc = NoLocals
    /\ out = <<>>
    /\ last = NoCall
    /\ pending = <<>>
    /\ fifo_ok = TRUE
    /\ seam = FALSE
    /\ irk_ok_ever = FALSE
    /\ irk_last = "none"
    /\ attempt = [p \in Peers |-> "Idle"]

\* what the NVRAM item can hold at power-up: nothing, or a key stored earlier
NvramItems == {"none"} \cup Keys

\* line 116 and the other #ifdef FASTPAIR_ENABLE: set or not by the build
Builds == [FASTPAIR_ENABLE : BOOLEAN]

Init ==
    /\ InitCommon
    /\ build \in Builds
    /\ nvram \in NvramItems
    /\ headset_control_mic_data =
          [p_mutex |-> "NULL", buffer |-> ZeroBuffer, data_len |-> 0,
           index_start |-> 0, index_end |-> 0]
    /\ local_irk_info = [local_irk |-> "zero", result |-> InitialIrkResult]
    /\ boot = [heap |-> FALSE, stack |-> FALSE, callback |-> FALSE, mutexes |-> 0,
               starts |-> 0, enable_evts |-> 0, periph |-> FALSE]

InitUp ==
    /\ InitCommon
    /\ build = [FASTPAIR_ENABLE |-> FALSE]
    /\ nvram = "none"
    /\ headset_control_mic_data =
          [p_mutex |-> "mutex", buffer |-> ZeroBuffer, data_len |-> 0,
           index_start |-> 0, index_end |-> 0]
    /\ local_irk_info = [local_irk |-> "zero", result |-> WICED_BT_ERROR]
    /\ boot = [heap |-> TRUE, stack |-> TRUE, callback |-> TRUE, mutexes |-> 1,
               starts |-> 1, enable_evts |-> 0, periph |-> TRUE]

(***************************************************************************)
(* SpecRing: the ring handlers, each call one step.                        *)
(***************************************************************************)
IsPrefix(s, t) == Len(s) <= Len(t) /\ SubSeq(t, 1, Len(s)) = s

\* headset_control_proc_rx_cmd with op_code HCI_CONTROL_HCI_AUDIO_COMMAND_MIC_DATA:
\* headset_control_mic_data_add(p_data, data_len), data_len converted to uint16_t
RxCmdMicData(p_data) ==
    LET md   == headset_control_mic_data
        len  == ToU16(Len(p_data))
        full == AddIsFull(md)
        fill == IF full THEN 0 ELSE AddCount(md, len)
        wrap == ~full /\ ~AddFits(md, fill)
    IN /\ headset_control_mic_data' = mic_data_add(md, p_data, len)
       /\ last' = [NoCall EXCEPT !.op = "mic_data_add", !.len = len,
                                 !.fill = fill, !.wrap = wrap, !.ret = ~full,
                                 !.seam = seam, !.raw_len = Len(p_data),
                                 !.p_mutex = md.p_mutex]
       /\ pending' = pending \o SubSeq(p_data, 1, fill)
       /\ seam' = (seam \/ wrap)
       /\ out' = <<>>
       /\ UNCHANGED fifo_ok

\* the audio path pulls len bytes into an area holding area:
\* headset_control_mic_data_add_callback(p_data, len)
ScoMicDataPull(area) ==
    LET md    == headset_control_mic_data
        len   == Len(area)
        empty == CbIsEmpty(md)
        fill  == IF empty THEN 0 ELSE CbCount(md, len)
        wrap  == ~empty /\ ~CbFits(md, fill)
        res   == mic_data_add_callback_out(md, area, len)
        got   == SubSeq(res, 1, fill)
    IN /\ headset_control_mic_data' = mic_data_add_callback_ring(md, len)
       /\ out' = res
       /\ last' = [NoCall EXCEPT !.op = "mic_data_add_callback", !.len = len,
                                 !.fill = fill, !.wrap = wrap, !.area = area,
                                 !.p_mutex = md.p_mutex,
                                 !.ret = mic_data_add_callback_ret(md),
                                 !.seam = seam,
                                 !.after_reset =
                                     (last.op = "BTM_SCO_DISCONNECTED_EVT" /\ last.len > 0)]
       /\ IF IsPrefix(got, pending)
          THEN /\ pending' = SubSeq(pending, fill + 1, Len(pending))
               /\ fifo_ok' = fifo_ok
          ELSE /\ pending' = pending
               /\ fifo_ok' = FALSE
       /\ seam' = (seam /\ ~(fill > 0 /\ md.index_start + fill >= N))

ScoEvents == {"BTM_SCO_CONNECTED_EVT", "BTM_SCO_DISCONNECTED_EVT",
              "BTM_SCO_CONNECTION_REQUEST_EVT", "BTM_SCO_CONNECTION_CHANGE_EVT"}

\* (mutant) the ring is reset on every SCO event
sco_event_resets_Always(event) == TRUE

\* line 711: if (event == BTM_SCO_DISCONNECTED_EVT)
sco_event_resets(event) == event = "BTM_SCO_DISCONNECTED_EVT"

\* lines 709-714: the calls of the SCO cases, in order
sco_event_calls(event) ==
    << <<"hf_sco_management_callback", event>> >>
        \o (IF sco_event_resets(event)
            THEN << <<"headset_control_mic_data_reset">> >>
            ELSE <<>>)

\* btheadset_control_management_callback, the four SCO cases (lines 705-715):
\* forward to hf_sco_management_callback, then reset on BTM_SCO_DISCONNECTED_EVT
BtmScoEvent(event) ==
    LET md    == headset_control_mic_data
        reset == sco_event_resets(event)
    IN /\ headset_control_mic_data' = IF reset THEN mic_data_reset(md) ELSE md
       /\ last' = [NoCall EXCEPT !.op = event, !.len = md.data_len, !.fill = 1,
                                 !.ret = reset, !.calls = sco_event_calls(event)]
       /\ pending' = IF reset THEN <<>> ELSE pending
       /\ seam' = (seam /\ ~reset)
       /\ out' = <<>>
       /\ UNCHANGED fifo_ok

\* the areas the audio path hands to the callback: len bytes, all of one value
Areas == {[k \in 1..n |-> b] : n \in 0..MaxReq, b \in Byte}

\* payloads whose 32-bit length does not fit the uint16_t parameter of
\* headset_control_mic_data_add: 65536 bytes and one more
LongChunks == {[k \in 1..(UINT16 + n) |-> 1] : n \in 0..1}

NextRing ==
    \/ \E p_data \in Chunks \cup LongChunks :
          RxCmdMicData(p_data) /\ UNCHANGED <<concVars, keyVars, buildVars, pairVars>>
    \/ \E area \in Areas : ScoMicDataPull(area) /\ UNCHANGED <<concVars, keyVars, buildVars, pairVars>>
    \/ \E event \in ScoEvents : BtmScoEvent(event) /\ UNCHANGED <<concVars, keyVars, buildVars, pairVars>>

SpecRing == InitUp /\ [][NextRing]_vars

(***************************************************************************)
(* SpecConc: the three contexts, one statement per step.                   *)
(*   command     headset_control_proc_rx_cmd -> headset_control_mic_data_add*)
(*   audio       headset_control_mic_data_add_callback                     *)
(*   management  btheadset_control_management_callback, SCO events ->      *)
(*               headset_control_mic_data_reset                            *)
(* wiced_rtos_lock_mutex blocks until the mutex is free.  reset takes no   *)
(* lock (lines 918-927).  Once a race has left data_len or an index out of *)
(* range, no further call is started: from there the words run through the *)
(* whole uint32_t range and the copies leave the storage.                  *)
(***************************************************************************)
RingSane(md) ==
    /\ md.data_len \in 0..N
    /\ md.index_start \in 0..(N - 1)
    /\ md.index_end \in 0..(N - 1)

ConcChunks == {[k \in 1..n |-> 1] : n \in 0..ConcMaxLen}

ConcAreas == {[k \in 1..n |-> 1] : n \in 0..ConcMaxReq}

Goto(c, label) == pc' = [pc EXCEPT ![c] = label]

\* what no statement of the three contexts touches
ConcFrame == UNCHANGED <<pending, fifo_ok, seam, keyVars, buildVars, pairVars>>

\* (mutant) the full-ring path returns with the mutex still held
AddFullUnlock_Forgotten == "command"

\* line 943: wiced_rtos_unlock_mutex on the full-ring path
AddFullUnlock == "none"

\* (mutant) the empty-ring path returns with the mutex still held
CbEmptyUnlock_Forgotten == "audio"

\* line 1003: wiced_rtos_unlock_mutex on the empty-ring path
CbEmptyUnlock == "none"

\* ---- command context: headset_control_mic_data_add, lines 932-985
CmdCall(p_data) ==
    /\ ConcFrame
    /\ pc["command"] = "idle"
    /\ RingSane(headset_control_mic_data)
    /\ Goto("command", "add_lock")
    /\ loc' = [loc EXCEPT !.p_data = p_data, !.add_len = ToU16(Len(p_data)),
                          !.add_fill = 0]
    /\ UNCHANGED <<headset_control_mic_data, mutex_owner, out, last>>

\* line 937
AddLock ==
    /\ ConcFrame
    /\ pc["command"] = "add_lock"
    /\ mutex_owner = "none"
    /\ mutex_owner' = "command"
    /\ Goto("command", "add_check")
    /\ UNCHANGED <<headset_control_mic_data, loc, out, last>>

\* lines 940-945
AddCheck ==
    /\ ConcFrame
    /\ pc["command"] = "add_check"
    /\ IF AddIsFull(headset_control_mic_data)
       THEN /\ mutex_owner' = AddFullUnlock
            /\ Goto("command", "idle")
            /\ loc' = [loc EXCEPT !.p_data = <<>>, !.add_len = 0]
            /\ last' = [NoCall EXCEPT !.op = "mic_data_add", !.ret = FALSE]
       ELSE /\ Goto("command", "add_count")
            /\ UNCHANGED <<mutex_owner, loc, last>>
    /\ UNCHANGED <<headset_control_mic_data, out>>

\* lines 947-955
AddCountStep ==
    /\ ConcFrame
    /\ pc["command"] = "add_count"
    /\ loc' = [loc EXCEPT !.add_fill = AddCount(headset_control_mic_data, loc.add_len)]
    /\ Goto("command", "add_copy")
    /\ UNCHANGED <<headset_control_mic_data, mutex_owner, out, last>>

\* lines 957-973
AddCopyStep ==
    /\ ConcFrame
    /\ pc["command"] = "add_copy"
    /\ headset_control_mic_data' = AddCopy(headset_control_mic_data, loc.p_data, loc.add_fill)
    /\ Goto("command", "add_len")
    /\ UNCHANGED <<mutex_owner, loc, out, last>>

\* line 976
AddLenStep ==
    /\ ConcFrame
    /\ pc["command"] = "add_len"
    /\ headset_control_mic_data' = AddDataLen(headset_control_mic_data, loc.add_fill)
    /\ Goto("command", "add_idx")
    /\ UNCHANGED <<mutex_owner, loc, out, last>>

\* line 978
AddIdxStep ==
    /\ ConcFrame
    /\ pc["command"] = "add_idx"
    /\ headset_control_mic_data' = AddIndexEnd(headset_control_mic_data, loc.add_fill)
    /\ Goto("command", "add_wrapcheck")
    /\ UNCHANGED <<mutex_owner, loc, out, last>>

\* line 979
AddWrapCheck ==
    /\ ConcFrame
    /\ pc["command"] = "add_wrapcheck"
    /\ IF AddMustWrap(headset_control_mic_data)
       THEN Goto("command", "add_wrap")
       ELSE Goto("command", "add_unlock")
    /\ UNCHANGED <<headset_control_mic_data, mutex_owner, loc, out, last>>

\* line 981
AddWrapStep ==
    /\ ConcFrame
    /\ pc["command"] = "add_wrap"
    /\ headset_control_mic_data' = AddWrap(headset_control_mic_data)
    /\ Goto("command", "add_unlock")
    /\ UNCHANGED <<mutex_owner, loc, out, last>>

\* line 984
AddUnlock ==
    /\ ConcFrame
    /\ pc["command"] = "add_unlock"
    /\ mutex_owner' = "none"
    /\ Goto("command", "idle")
    /\ last' = [NoCall EXCEPT !.op = "mic_data_add", !.ret = TRUE]
    /\ loc' = [loc EXCEPT !.p_data = <<>>, !.add_len = 0, !.add_fill = 0]
    /\ UNCHANGED <<headset_control_mic_data, out>>

\* ---- audio context: headset_control_mic_data_add_callback, lines 992-1053
AudioCall(area) ==
    /\ ConcFrame
    /\ pc["audio"] = "idle"
    /\ RingSane(headset_control_mic_data)
    /\ Goto("audio", "cb_lock")
    /\ out' = area
    /\ loc' = [loc EXCEPT !.cb_len = Len(area), !.cb_fill = 0]
    /\ UNCHANGED <<headset_control_mic_data, mutex_owner, last>>

\* line 997
CbLock ==
    /\ ConcFrame
    /\ pc["audio"] = "cb_lock"
    /\ mutex_owner = "none"
    /\ mutex_owner' = "audio"
    /\ Goto("audio", "cb_check")
    /\ UNCHANGED <<headset_control_mic_data, loc, out, last>>

\* lines 1000-1005
CbCheck ==
    /\ ConcFrame
    /\ pc["audio"] = "cb_check"
    /\ IF CbIsEmpty(headset_control_mic_data)
       THEN /\ mutex_owner' = CbEmptyUnlock
            /\ Goto("audio", "idle")
            /\ out' = <<>>
            /\ loc' = [loc EXCEPT !.cb_len = 0]
            /\ last' = [NoCall EXCEPT !.op = "mic_data_add_callback", !.ret = FALSE]
       ELSE /\ Goto("audio", "cb_count")
            /\ UNCHANGED <<mutex_owner, loc, out, last>>
    /\ UNCHANGED headset_control_mic_data

\* lines 1007-1015
CbCountStep ==
    /\ ConcFrame
    /\ pc["audio"] = "cb_count"
    /\ loc' = [loc EXCEPT !.cb_fill = CbCount(headset_control_mic_data, loc.cb_len)]
    /\ Goto("audio", "cb_copy")
    /\ UNCHANGED <<headset_control_mic_data, mutex_owner, out, last>>

\* lines 1017-1033
CbCopyStep ==
    /\ ConcFrame
    /\ pc["audio"] = "cb_copy"
    /\ out' = CbCopy(headset_control_mic_data, out, loc.cb_fill)
    /\ Goto("audio", "cb_pad")
    /\ UNCHANGED <<headset_control_mic_data, mutex_owner, loc, last>>

\* lines 1035-1039
CbPadStep ==
    /\ ConcFrame
    /\ pc["audio"] = "cb_pad"
    /\ out' = CbPad(out, loc.cb_fill, loc.cb_len)
    /\ Goto("audio", "cb_len")
    /\ UNCHANGED <<headset_control_mic_data, mutex_owner, loc, last>>

\* line 1042
CbLenStep ==
    /\ ConcFrame
    /\ pc["audio"] = "cb_len"
    /\ headset_control_mic_data' = CbDataLen(headset_control_mic_data, loc.cb_fill)
    /\ Goto("audio", "cb_idx")
    /\ UNCHANGED <<mutex_owner, loc, out, last>>

\* line 1044
CbIdxStep ==
    /\ ConcFrame
    /\ pc["audio"] = "cb_idx"
    /\ headset_control_mic_data' = CbIndexStart(headset_control_mic_data, loc.cb_fill)
    /\ Goto("audio", "cb_wrapcheck")
    /\ UNCHANGED <<mutex_owner, loc, out, last>>

\* line 1045
CbWrapCheck ==
    /\ ConcFrame
    /\ pc["audio"] = "cb_wrapcheck"
    /\ IF CbMustWrap(headset_control_mic_data)
       THEN Goto("audio", "cb_wrap")
       ELSE Goto("audio", "cb_unlock")
    /\ UNCHANGED <<headset_control_mic_data, mutex_owner, loc, out, last>>

\* line 1047
CbWrapStep ==
    /\ ConcFrame
    /\ pc["audio"] = "cb_wrap"
    /\ headset_control_mic_data' = CbWrap(headset_control_mic_data)
    /\ Goto("audio", "cb_unlock")
    /\ UNCHANGED <<mutex_owner, loc, out, last>>

\* lines 1050-1052: the caller has taken the area when the next call starts
CbUnlock ==
    /\ ConcFrame
    /\ pc["audio"] = "cb_unlock"
    /\ mutex_owner' = "none"
    /\ Goto("audio", "idle")
    /\ last' = [NoCall EXCEPT !.op = "mic_data_add_callback", !.ret = TRUE]
    /\ out' = <<>>
    /\ loc' = [loc EXCEPT !.cb_len = 0, !.cb_fill = 0]
    /\ UNCHANGED headset_control_mic_data

\* ---- management context: the SCO cases, lines 705-715, and reset, 918-927
MgmtScoEvent(event) ==
    /\ ConcFrame
    /\ pc["management"] = "idle"
    /\ RingSane(headset_control_mic_data)
    /\ IF sco_event_resets(event)
       THEN Goto("management", "rst_memset")
       ELSE Goto("management", "idle")
    /\ UNCHANGED <<headset_control_mic_data, mutex_owner, loc, out, last>>

\* lines 920-922
RstMemset ==
    /\ ConcFrame
    /\ pc["management"] = "rst_memset"
    /\ headset_control_mic_data' = ResetMemset(headset_control_mic_data)
    /\ Goto("management", "rst_len")
    /\ UNCHANGED <<mutex_owner, loc, out, last>>

\* line 924
RstLen ==
    /\ ConcFrame
    /\ pc["management"] = "rst_len"
    /\ headset_control_mic_data' = ResetDataLen(headset_control_mic_data)
    /\ Goto("management", "rst_start")
    /\ UNCHANGED <<mutex_owner, loc, out, last>>

\* line 925
RstStart ==
    /\ ConcFrame
    /\ pc["management"] = "rst_start"
    /\ headset_control_mic_data' = ResetIndexStart(headset_control_mic_data)
    /\ Goto("management", "rst_end")
    /\ UNCHANGED <<mutex_owner, loc, out, last>>

\* line 926
RstEnd ==
    /\ ConcFrame
    /\ pc["management"] = "rst_end"
    /\ headset_control_mic_data' = ResetIndexEnd(headset_control_mic_data)
    /\ Goto("management", "idle")
    /\ UNCHANGED <<mutex_owner, loc, out, last>>

NextConc ==
    \/ \E p_data \in ConcChunks : CmdCall(p_data)
    \/ AddLock
    \/ AddCheck
    \/ AddCountStep
    \/ AddCopyStep
    \/ AddLenStep
    \/ AddIdxStep
    \/ AddWrapCheck
    \/ AddWrapStep
    \/ AddUnlock
    \/ \E area \in ConcAreas : AudioCall(area)
    \/ CbLock
    \/ CbCheck
    \/ CbCountStep
    \/ CbCopyStep
    \/ CbPadStep
    \/ CbLenStep
    \/ CbIdxStep
    \/ CbWrapCheck
    \/ CbWrapStep
    \/ CbUnlock
    \/ \E event \in ScoEvents : MgmtScoEvent(event)
    \/ RstMemset
    \/ RstLen
    \/ RstStart
    \/ RstEnd

SpecConc == InitUp /\ [][NextConc]_vars

\* the statements of headset_control_mic_data_add past the lock
AddBody ==
    \/ AddCheck
    \/ AddCountStep
    \/ AddCopyStep
    \/ AddLenStep
    \/ AddIdxStep
    \/ AddWrapCheck
    \/ AddWrapStep
    \/ AddUnlock

\* the statements of headset_control_mic_data_add_callback past the lock
CbBody ==
    \/ CbCheck
    \/ CbCountStep
    \/ CbCopyStep
    \/ CbPadStep
    \/ CbLenStep
    \/ CbIdxStep
    \/ CbWrapCheck
    \/ CbWrapStep
    \/ CbUnlock

\* SpecConcFair: the scheduler lets a context that can run a statement run
\* it, and wiced_rtos_lock_mutex hands a mutex that keeps being released to
\* a context that keeps waiting for it.
ConcFairness ==
    /\ WF_vars(AddBody)
    /\ WF_vars(CbBody)
    /\ SF_vars(AddLock)
    /\ SF_vars(CbLock)

\* the calls made while the scheduling is fair: one byte added, one pulled
FairChunks == {c \in ConcChunks : Len(c) = 1}

FairAreas == {a \in ConcAreas : Len(a) = 1}

NextConcFair ==
    \/ \E p_data \in FairChunks : CmdCall(p_data)
    \/ AddLock
    \/ AddBody
    \/ \E area \in FairAreas : AudioCall(area)
    \/ CbLock
    \/ CbBody
    \/ \E event \in ScoEvents : MgmtScoEvent(event)
    \/ RstMemset
    \/ RstLen
    \/ RstStart
    \/ RstEnd

SpecConcFair == InitUp /\ [][NextConcFair]_vars /\ ConcFairness

(***************************************************************************)
(* Spec: start-up and the local IRK store, one step per handler.           *)
(* The collaborators (heap, stack, audio buffer, NVRAM, RTOS) answer       *)
(* either way; an NVRAM read that fails leaves the destination as it was   *)
(* or holding anything.                                                    *)
(***************************************************************************)
\* headset_control_local_irk_restore, lines 244-256: wiced_hal_read_nvram writes
\* its status into local_irk_info.result and the bytes read into local_irk; a
\* read that fails leaves in local_irk any key (garbage), the old one included
local_irk_restore(info, store, read_ok, garbage) ==
    IF read_ok /\ store # "none"
    THEN [local_irk |-> store, result |-> WICED_BT_SUCCESS]
    ELSE [local_irk |-> garbage, result |-> WICED_BT_ERROR]

\* BTM_SECURITY_LOCAL_KEY_DATA_LEN, the length of the key (Keys are whole keys)
BTM_SECURITY_LOCAL_KEY_DATA_LEN == 16

\* what wiced_hal_write_nvram can answer: bytes written (none, some, all) and status
NbBytes == {0, BTM_SECURITY_LOCAL_KEY_DATA_LEN \div 2, BTM_SECURITY_LOCAL_KEY_DATA_LEN}

NvramStatus == {WICED_BT_SUCCESS, WICED_BT_ERROR}

\* (mutant) the key is not compared with the cached one
local_irk_update_writes_Always(info, p_key) == TRUE

\* lines 266-268: memcmp(p_key, local_irk) != 0, wiced_hal_write_nvram is called
local_irk_update_writes(info, p_key) == p_key # info.local_irk

\* (mutant) the status of the write is enough, the count is not looked at
local_irk_update_stored_StatusOnly(nb_bytes, result) == result = WICED_BT_SUCCESS

\* lines 279-280: the write is taken as done
local_irk_update_stored(nb_bytes, result) ==
    nb_bytes = BTM_SECURITY_LOCAL_KEY_DATA_LEN /\ result = WICED_BT_SUCCESS

\* headset_control_local_irk_update, lines 261-290: the cache after the call
local_irk_update(info, p_key, nb_bytes, result) ==
    IF local_irk_update_writes(info, p_key) /\ local_irk_update_stored(nb_bytes, result)
    THEN [local_irk |-> p_key, result |-> result]
    ELSE info

\* BTM_LOCAL_IDENTITY_KEYS_REQUEST_EVT, lines 678-695: the returned status
identity_keys_request_result(info) ==
    IF info.result = WICED_BT_SUCCESS THEN WICED_BT_SUCCESS ELSE WICED_BT_NO_RESOURCES

\* lines 685-690: the event's key field after the handler
identity_keys_request_key(info, field) ==
    IF info.result = WICED_BT_SUCCESS THEN info.local_irk ELSE field

\* (mutant) the stack is initialised without a look at the heap
start_calls_HeapIgnored(data_len, heap_ok, stack_ok, audio_ok) ==
    IF data_len # 0 THEN <<>>
    ELSE <<"wiced_bt_create_heap", "wiced_bt_stack_init">>

\* headset_control_start, lines 763-801: the collaborators called, in order,
\* each return of the function cutting the list
start_calls(data_len, heap_ok, stack_ok, audio_ok) ==
    IF data_len # 0 THEN <<>>
    ELSE <<"wiced_bt_create_heap">>
         \o (IF ~heap_ok THEN <<>>
             ELSE <<"wiced_bt_stack_init">>
                  \o (IF ~stack_ok THEN <<>>
                      ELSE <<"wiced_audio_buffer_initialize">>
                           \o (IF ~audio_ok THEN <<>>
                               ELSE <<"headset_control_local_irk_restore">>)))

\* headset_control_proc_rx_cmd with HCI_CONTROL_HCI_AUDIO_COMMAND_BT_START:
\* headset_control_start(p_data, data_len), lines 759-802
RxCmdStart(data_len, heap_ok, stack_ok, audio_ok, read_ok, garbage) ==
    /\ boot.starts < MaxStarts
    /\ LET reached_heap  == data_len = 0
           reached_stack == reached_heap /\ heap_ok
           reached_audio == reached_stack /\ stack_ok
           restored      == reached_audio /\ audio_ok
           got           == local_irk_restore(local_irk_info, nvram, read_ok, garbage)
       IN /\ boot' = [boot EXCEPT
                        !.starts = boot.starts + 1,
                        !.heap = IF reached_heap THEN heap_ok ELSE boot.heap,
                        !.stack = boot.stack \/ reached_audio,
                        !.enable_evts = IF reached_audio THEN boot.enable_evts + 1
                                        ELSE boot.enable_evts]
          /\ local_irk_info' = IF restored THEN got ELSE local_irk_info
          /\ irk_ok_ever' = (irk_ok_ever \/ (restored /\ got.result = WICED_BT_SUCCESS))
          /\ irk_last' = IF ~restored THEN irk_last
                         ELSE IF got.result = WICED_BT_SUCCESS THEN "success"
                         ELSE "failure"
          /\ last' = [NoCall EXCEPT !.op = "BT_START", !.len = data_len,
                                    !.ret = restored,
                                    !.calls = start_calls(data_len, heap_ok,
                                                          stack_ok, audio_ok),
                                    !.result = IF restored THEN got.result
                                               ELSE WICED_BT_ERROR]
    /\ UNCHANGED <<nvram, ringVars, concVars, buildVars, pairVars>>

PostInitOutcomes == {"early_error", "mutex_create_error", "mutex_init_error",
                     "late_error", "ok"}

\* btheadset_post_bt_init, lines 445-471: the steps from the registration of
\* the callback on, up to the return the outcome names
post_bt_init_calls(outcome) ==
    IF outcome = "early_error" THEN <<>>
    ELSE <<"bt_hs_spk_handsfree_sco_mic_data_add_callback_register",
           "wiced_rtos_create_mutex">>
         \o (IF outcome = "mutex_create_error" THEN <<>>
             ELSE <<"wiced_rtos_init_mutex">>
                  \o (IF outcome = "mutex_init_error" THEN <<>>
                      ELSE <<"wiced_bt_dev_set_afh_channel_assessment">>))

\* lines 516-531: what BTM_ENABLED_EVT runs after btheadset_post_bt_init, whose
\* result it does not read (wiced_led_manager_init unless PLATFORM_LED_DISABLED)
enabled_after_post_init(outcome) ==
    <<"btheadset_init_button_interface", "wiced_led_manager_init">>

\* lines 511-534: the calls of the handler, in order
enabled_calls(status, outcome) ==
    IF status # WICED_BT_SUCCESS THEN <<>>
    ELSE <<"btheadset_post_bt_init">> \o post_bt_init_calls(outcome)
             \o enabled_after_post_init(outcome)

\* BTM_ENABLED_EVT, lines 509-537, with btheadset_post_bt_init, lines 361-485:
\* the callback is registered at line 445, the mutex created at 448 and
\* initialised at 457; the result of btheadset_post_bt_init is not looked at
BtmEnabled(status, outcome) ==
    /\ boot.enable_evts > 0
    /\ LET run        == status = WICED_BT_SUCCESS
           registered == run /\ outcome # "early_error"
           created    == registered /\ outcome # "mutex_create_error"
           p_mutex    == IF ~created THEN "NULL"
                         ELSE IF outcome = "mutex_init_error" THEN "uninit"
                         ELSE "mutex"
       IN /\ boot' = [boot EXCEPT
                        !.enable_evts = boot.enable_evts - 1,
                        !.callback = boot.callback \/ registered,
                        !.mutexes = IF created THEN boot.mutexes + 1 ELSE boot.mutexes,
                        !.periph = boot.periph \/ run]
          /\ headset_control_mic_data' =
                IF registered
                THEN [headset_control_mic_data EXCEPT !.p_mutex = p_mutex]
                ELSE headset_control_mic_data
          /\ last' = [NoCall EXCEPT !.op = "BTM_ENABLED_EVT", !.ret = run,
                                    !.outcome = IF run THEN outcome ELSE "none",
                                    !.calls = enabled_calls(status, outcome),
                                    !.result = IF outcome = "ok" THEN WICED_BT_SUCCESS
                                               ELSE WICED_BT_ERROR]
    /\ UNCHANGED <<local_irk_info, nvram, irk_ok_ever, irk_last, out, pending,
                   fifo_ok, seam, concVars, buildVars, pairVars>>

\* BTM_LOCAL_IDENTITY_KEYS_UPDATE_EVT, lines 672-676
\* and headset_control_local_irk_update; nb_bytes and result are the answer of
\* wiced_hal_write_nvram, should it be called
BtmLocalIdentityKeysUpdate(p_key, nb_bytes, result) ==
    /\ boot.stack
    /\ LET writes == local_irk_update_writes(local_irk_info, p_key)
           stored == writes /\ local_irk_update_stored(nb_bytes, result)
       IN /\ local_irk_info' = local_irk_update(local_irk_info, p_key, nb_bytes, result)
          /\ nvram' = IF writes /\ nb_bytes = BTM_SECURITY_LOCAL_KEY_DATA_LEN
                      THEN p_key ELSE nvram
          /\ irk_ok_ever' = (irk_ok_ever \/ stored)
          /\ irk_last' = IF stored THEN "success" ELSE irk_last
          /\ last' = [NoCall EXCEPT !.op = "BTM_LOCAL_IDENTITY_KEYS_UPDATE_EVT",
                                    !.key_in = p_key, !.key = local_irk_info.local_irk,
                                    !.wrote = writes,
                                    !.len = IF writes THEN nb_bytes ELSE 0,
                                    !.result = IF writes THEN result ELSE WICED_BT_SUCCESS,
                                    !.ret = stored]
    /\ UNCHANGED <<boot, ringVars, concVars, buildVars, pairVars>>

\* BTM_LOCAL_IDENTITY_KEYS_REQUEST_EVT, lines 678-695; field is what the
\* event's key field holds when the stack raises the event
BtmLocalIdentityKeysRequest(field) ==
    /\ boot.stack
    /\ last' = [NoCall EXCEPT !.op = "BTM_LOCAL_IDENTITY_KEYS_REQUEST_EVT",
                              !.key_in = field,
                              !.key = identity_keys_request_key(local_irk_info, field),
                              !.result = identity_keys_request_result(local_irk_info)]
    /\ UNCHANGED <<keyVars, ringVars, concVars, buildVars, pairVars>>

(***************************************************************************)
(* The pairing cases of btheadset_control_management_callback.  The calls  *)
(* a handler makes to its collaborators are kept, in order, in last.calls; *)
(* the fields it writes into the event are kept in last.answer.            *)
(* hci_control_cb.pairing_allowed and the state returned by                *)
(* wiced_bt_gfps_provider_pairing_state_get belong to other modules: the   *)
(* handler finds either value.  A build without FASTPAIR_ENABLE has no     *)
(* fast-pair provider, and so no seeker mode to be active.                 *)
(***************************************************************************)
Passkeys == {0, 999999}

\* lines 653-655: the grant
security_request_calls(bd_addr, pairing_allowed) ==
    IF pairing_allowed
    THEN << <<"wiced_bt_ble_security_grant", bd_addr, WICED_BT_SUCCESS>> >>
    ELSE <<>>

\* (mutant) the request is answered with success whatever the flag
security_request_result_Success(pairing_allowed) == WICED_BT_SUCCESS

\* lines 494 and 657-661: result stays WICED_BT_SUCCESS or becomes WICED_BT_ERROR
security_request_result(pairing_allowed) ==
    IF pairing_allowed THEN WICED_BT_SUCCESS ELSE WICED_BT_ERROR

\* BTM_SECURITY_REQUEST_EVT, lines 651-662
BtmSecurityRequest(bd_addr, pairing_allowed) ==
    /\ boot.stack
    /\ last' = [NoCall EXCEPT !.op = "BTM_SECURITY_REQUEST_EVT",
                              !.bd_addr = bd_addr,
                              !.pairing_allowed = pairing_allowed,
                              !.calls = security_request_calls(bd_addr, pairing_allowed),
                              !.result = security_request_result(pairing_allowed)]
    /\ UNCHANGED <<keyVars, ringVars, concVars, buildVars, pairVars>>

\* lines 557-561: the passkey goes to the fast-pair provider
user_confirmation_forward(bld, just_works, numeric_value) ==
    IF ~just_works /\ bld.FASTPAIR_ENABLE
    THEN << <<"wiced_bt_gfps_provider_seeker_passkey_set", numeric_value>> >>
    ELSE <<>>

\* (mutant) only a just-works request is answered
user_confirmation_reply_JustWorksOnly(bd_addr, just_works) ==
    IF just_works
    THEN << <<"wiced_bt_dev_confirm_req_reply", WICED_BT_SUCCESS, bd_addr>> >>
    ELSE <<>>

\* lines 554 and 562: wiced_bt_dev_confirm_req_reply(WICED_BT_SUCCESS, bd_addr)
user_confirmation_reply(bd_addr, just_works) ==
    << <<"wiced_bt_dev_confirm_req_reply", WICED_BT_SUCCESS, bd_addr>> >>

\* (mutant) the reply is sent before the passkey is forwarded
user_confirmation_calls_ReplyFirst(bld, bd_addr, just_works, numeric_value) ==
    user_confirmation_reply(bd_addr, just_works)
        \o user_confirmation_forward(bld, just_works, numeric_value)

\* lines 551-563: the calls of the handler, in order
user_confirmation_calls(bld, bd_addr, just_works, numeric_value) ==
    user_confirmation_forward(bld, just_works, numeric_value)
        \o user_confirmation_reply(bd_addr, just_works)

\* BTM_USER_CONFIRMATION_REQUEST_EVT, lines 548-564
BtmUserConfirmationRequest(bd_addr, just_works, numeric_value, seeker) ==
    /\ boot.stack
    /\ seeker => build.FASTPAIR_ENABLE
    /\ last' = [NoCall EXCEPT !.op = "BTM_USER_CONFIRMATION_REQUEST_EVT",
                              !.bd_addr = bd_addr, !.just_works = just_works,
                              !.numeric_value = numeric_value, !.seeker = seeker,
                              !.calls = user_confirmation_calls(build, bd_addr,
                                                                just_works, numeric_value),
                              !.result = WICED_BT_SUCCESS]
    /\ UNCHANGED <<keyVars, ringVars, concVars, buildVars>>

\* (mutant) the seeker mode is not looked at
br_edr_local_io_cap_None(bld, seeker) == "BTM_IO_CAPABILITIES_NONE"

\* lines 576-589: local_io_cap
br_edr_local_io_cap(bld, seeker) ==
    IF bld.FASTPAIR_ENABLE /\ seeker
    THEN "BTM_IO_CAPABILITIES_DISPLAY_AND_YES_NO_INPUT"
    ELSE "BTM_IO_CAPABILITIES_NONE"

\* lines 576-592: the fields written into pairing_io_capabilities_br_edr_request
br_edr_request_answer(bld, seeker) ==
    [local_io_cap |-> br_edr_local_io_cap(bld, seeker),
     auth_req     |-> "BTM_AUTH_SINGLE_PROFILE_GENERAL_BONDING_NO",
     oob_data     |-> FALSE]

\* BTM_PAIRING_IO_CAPABILITIES_BR_EDR_REQUEST_EVT, lines 571-594
BtmPairingIoCapabilitiesBrEdrRequest(bd_addr, seeker) ==
    /\ boot.stack
    /\ seeker => build.FASTPAIR_ENABLE
    /\ last' = [NoCall EXCEPT !.op = "BTM_PAIRING_IO_CAPABILITIES_BR_EDR_REQUEST_EVT",
                              !.bd_addr = bd_addr, !.seeker = seeker,
                              !.answer = br_edr_request_answer(build, seeker),
                              !.result = WICED_BT_SUCCESS]
    /\ UNCHANGED <<keyVars, ringVars, concVars, buildVars>>

\* lines 623-624: BTM_LE_KEY_PENC|BTM_LE_KEY_PID|BTM_LE_KEY_PCSRK|BTM_LE_KEY_LENC
LeKeys == {"BTM_LE_KEY_PENC", "BTM_LE_KEY_PID", "BTM_LE_KEY_PCSRK", "BTM_LE_KEY_LENC"}

\* (mutant) the responder keys leave out the local encryption key
ble_resp_keys_NoLenc == LeKeys \ {"BTM_LE_KEY_LENC"}

\* line 624: resp_keys
ble_resp_keys == LeKeys

\* lines 619-624: the fields written into pairing_io_capabilities_ble_request
ble_request_answer ==
    [local_io_cap |-> "BTM_IO_CAPABILITIES_NONE",
     oob_data     |-> "BTM_OOB_NONE",
     auth_req     |-> "BTM_LE_AUTH_REQ_SC_MITM_BOND",
     max_key_size |-> 16,
     init_keys    |-> LeKeys,
     resp_keys    |-> ble_resp_keys]

\* BTM_PAIRING_IO_CAPABILITIES_BLE_REQUEST_EVT, lines 614-625
BtmPairingIoCapabilitiesBleRequest(bd_addr, seeker, pairing_allowed) ==
    /\ boot.stack
    /\ seeker => build.FASTPAIR_ENABLE
    /\ last' = [NoCall EXCEPT !.op = "BTM_PAIRING_IO_CAPABILITIES_BLE_REQUEST_EVT",
                              !.bd_addr = bd_addr, !.seeker = seeker,
                              !.pairing_allowed = pairing_allowed,
                              !.answer = ble_request_answer,
                              !.result = WICED_BT_SUCCESS]
    /\ UNCHANGED <<keyVars, ringVars, concVars, buildVars>>

\* line 819: sizeof(button_id) + sizeof(button_event) + sizeof(button_state)
ButtonLen == 3

\* BUTTON payloads: one byte short, right, one byte long, of two byte patterns
ButtonPayloads ==
    {SubSeq(p, 1, n) : p \in {<<0, 1, 0, 1>>, <<1, 0, 1, 1>>},
                       n \in (ButtonLen - 1)..(ButtonLen + 1)}

\* (mutant) a payload longer than the three bytes is taken too
button_calls_AtLeast(p_data) ==
    IF Len(p_data) < ButtonLen THEN <<>>
    ELSE << <<"bt_hs_spk_button_event_emulator", p_data[1], p_data[2], p_data[3], 0>> >>

\* headset_control_proc_rx_cmd_button, lines 819-834
button_calls(p_data) ==
    IF Len(p_data) # ButtonLen THEN <<>>
    ELSE << <<"bt_hs_spk_button_event_emulator", p_data[1], p_data[2], p_data[3], 0>> >>

\* headset_control_proc_rx_cmd with HCI_CONTROL_HCI_AUDIO_COMMAND_BUTTON:
\* headset_control_proc_rx_cmd_button(p_data, data_len), lines 814-835
RxCmdButton(p_data) ==
    /\ last' = [NoCall EXCEPT !.op = "BUTTON", !.len = Len(p_data),
                              !.calls = button_calls(p_data)]
    /\ UNCHANGED <<keyVars, ringVars, concVars, buildVars, pairVars>>

\* payload lengths of a START command: empty, or not
StartLens == {0, 1}

\* the START commands and the answers of the collaborators of
\* headset_control_start: <<data_len, heap_ok, stack_ok, audio_ok, read_ok,
\* garbage>>, an answer that is never asked for being left at its first value
StartCases ==
    {c \in StartLens \X BOOLEAN \X BOOLEAN \X BOOLEAN \X BOOLEAN \X Keys :
        /\ (c[1] # 0 => c[2])
        /\ (~c[2] => c[3])
        /\ (~c[3] => c[4])
        /\ (~c[4] => c[5])
        /\ (c[5] => c[6] = "zero")}

Next ==
    \/ \E c \in StartCases : RxCmdStart(c[1], c[2], c[3], c[4], c[5], c[6])
    \/ \E status \in {WICED_BT_SUCCESS, WICED_BT_ERROR}, outcome \in PostInitOutcomes :
          BtmEnabled(status, outcome)
    \/ \E p_key \in Keys, nb_bytes \in NbBytes, result \in NvramStatus :
          BtmLocalIdentityKeysUpdate(p_key, nb_bytes, result)
    \/ \E field \in Keys : BtmLocalIdentityKeysRequest(field)
    \/ \E p_data \in ButtonPayloads : RxCmdButton(p_data)
    \/ \E bd_addr \in Peers, pairing_allowed \in BOOLEAN :
          BtmSecurityRequest(bd_addr, pairing_allowed)
    \/ \E bd_addr \in Peers, just_works \in BOOLEAN, numeric_value \in Passkeys,
          seeker \in BOOLEAN :
          BtmUserConfirmationRequest(bd_addr, just_works, numeric_value, seeker)
             /\ UNCHANGED pairVars
    \/ \E bd_addr \in Peers, seeker \in BOOLEAN :
          BtmPairingIoCapabilitiesBrEdrRequest(bd_addr, seeker) /\ UNCHANGED pairVars
    \/ \E bd_addr \in Peers, seeker \in BOOLEAN, pairing_allowed \in BOOLEAN :
          BtmPairingIoCapabilitiesBleRequest(bd_addr, seeker, pairing_allowed)
             /\ UNCHANGED pairVars

Spec == Init /\ [][Next]_vars

(***************************************************************************)
(* Pairing attempts (SpecPair).  The handlers of the management callback   *)
(* keep no variable between two events; attempt follows, for each peer,    *)
(* the events the callback has handled for it: the stage the attempt would *)
(* be in if each handled event had been the next one of its attempt.  The  *)
(* stack is up and delivers the pairing events of the peers one at a time, *)
(* in an order the callback does not decide.                               *)
(***************************************************************************)
Transports == {"BT_TRANSPORT_BR_EDR", "BT_TRANSPORT_LE"}

\* pairing_complete_info.br_edr.status or .ble.reason: success or a failure
PairingResults == {0, 1}

\* BTM_PAIRING_COMPLETE_EVT, lines 627-640: the result is traced, nothing else
BtmPairingComplete(bd_addr, transport, pairing_result) ==
    /\ boot.stack
    /\ last' = [NoCall EXCEPT !.op = "BTM_PAIRING_COMPLETE_EVT",
                              !.bd_addr = bd_addr, !.transport = transport,
                              !.pairing_result = pairing_result,
                              !.result = WICED_BT_SUCCESS]
    /\ UNCHANGED <<keyVars, ringVars, concVars, buildVars>>

InitPair ==
    /\ InitCommon
    /\ build \in Builds
    /\ nvram = "none"
    /\ headset_control_mic_data =
          [p_mutex |-> "mutex", buffer |-> ZeroBuffer, data_len |-> 0,
           index_start |-> 0, index_end |-> 0]
    /\ local_irk_info = [local_irk |-> "zero", result |-> WICED_BT_ERROR]
    /\ boot = [heap |-> TRUE, stack |-> TRUE, callback |-> TRUE, mutexes |-> 1,
               starts |-> 1, enable_evts |-> 1, periph |-> TRUE]

\* the stage of bd_addr's attempt once the callback has handled one more event
Staged(bd_addr, stage) == attempt' = [attempt EXCEPT ![bd_addr] = stage]

PairIoCapBrEdr(bd_addr, seeker) ==
    /\ BtmPairingIoCapabilitiesBrEdrRequest(bd_addr, seeker)
    /\ Staged(bd_addr, "IOCapRequested")

PairIoCapBle(bd_addr, seeker, pairing_allowed) ==
    /\ BtmPairingIoCapabilitiesBleRequest(bd_addr, seeker, pairing_allowed)
    /\ Staged(bd_addr, "IOCapRequested")

PairUserConfirmation(bd_addr, just_works, numeric_value, seeker) ==
    /\ BtmUserConfirmationRequest(bd_addr, just_works, numeric_value, seeker)
    /\ Staged(bd_addr, "ConfirmationPending")

PairComplete(bd_addr, transport, pairing_result) ==
    /\ BtmPairingComplete(bd_addr, transport, pairing_result)
    /\ Staged(bd_addr, "Complete")

NextPair ==
    \/ \E bd_addr \in Peers, seeker \in BOOLEAN : PairIoCapBrEdr(bd_addr, seeker)
    \/ \E bd_addr \in Peers, seeker \in BOOLEAN, pairing_allowed \in BOOLEAN :
          PairIoCapBle(bd_addr, seeker, pairing_allowed)
    \/ \E bd_addr \in Peers, just_works \in BOOLEAN, numeric_value \in Passkeys,
          seeker \in BOOLEAN :
          PairUserConfirmation(bd_addr, just_works, numeric_value, seeker)
    \/ \E bd_addr \in Peers, transport \in Transports,
          pairing_result \in PairingResults :
          PairComplete(bd_addr, transport, pairing_result)

SpecPair == InitPair /\ [][NextPair]_vars

(***************************************************************************)
(* SpecBoot: the ring handlers while the application starts.  The          *)
(* transport delivers commands from btheadset_control_init on, so a        *)
(* MIC_DATA command can come before START and before BTM_ENABLED_EVT; the  *)
(* audio path pulls once the callback is registered (line 445).  Neither   *)
(* handler looks at p_mutex before wiced_rtos_lock_mutex (lines 937, 997), *)
(* nor at what the lock returns: with a mutex that is NULL or was not      *)
(* initialised the call either faults there or goes on without the lock.   *)
(***************************************************************************)
\* one byte added, one pulled at a time
BootChunks == {<<1>>}

BootAreas == {<<0>>}

\* power-up of a build without FASTPAIR_ENABLE, the NVRAM item absent
InitBoot == Init /\ nvram = "none" /\ ~build.FASTPAIR_ENABLE

\* the START commands of StartCases whose NVRAM read, if it comes to it,
\* reports the absent item
BootStartCases == {c \in StartCases : c[5]}

\* the firmware has stopped in a fault
Faulted == pc["command"] = "fault" \/ pc["audio"] = "fault"

\* wiced_rtos_lock_mutex(p_mutex) at lines 937 and 997 can fault
LockCanFault(md) == md.p_mutex # "mutex"

\* a MIC_DATA command at any time after btheadset_control_init (lines 853-855)
BootMicData(p_data, fault) ==
    /\ ~Faulted
    /\ fault => LockCanFault(headset_control_mic_data)
    /\ IF fault
       THEN /\ pc' = [pc EXCEPT !["command"] = "fault"]
            /\ last' = [NoCall EXCEPT !.op = "mic_data_add",
                                      !.raw_len = Len(p_data),
                                      !.p_mutex = headset_control_mic_data.p_mutex]
            /\ UNCHANGED <<ringVars, mutex_owner, loc>>
       ELSE RxCmdMicData(p_data) /\ UNCHANGED concVars
    /\ UNCHANGED <<keyVars, buildVars, pairVars>>

\* a pull of the audio path once the callback is registered (lines 445, 992-997)
BootMicDataPull(area, fault) ==
    /\ ~Faulted
    /\ boot.callback
    /\ fault => LockCanFault(headset_control_mic_data)
    /\ IF fault
       THEN /\ pc' = [pc EXCEPT !["audio"] = "fault"]
            /\ last' = [NoCall EXCEPT !.op = "mic_data_add_callback",
                                      !.len = Len(area), !.area = area,
                                      !.p_mutex = headset_control_mic_data.p_mutex]
            /\ UNCHANGED <<ringVars, mutex_owner, loc>>
       ELSE ScoMicDataPull(area) /\ UNCHANGED concVars
    /\ UNCHANGED <<keyVars, buildVars, pairVars>>

BootStart(c) == ~Faulted /\ RxCmdStart(c[1], c[2], c[3], c[4], c[5], c[6])

BootEnabled(status, outcome) == ~Faulted /\ BtmEnabled(status, outcome)

NextBoot ==
    \/ \E c \in BootStartCases : BootStart(c)
    \/ \E status \in {WICED_BT_SUCCESS, WICED_BT_ERROR}, outcome \in PostInitOutcomes :
          BootEnabled(status, outcome)
    \/ \E p_data \in BootChunks, fault \in BOOLEAN : BootMicData(p_data, fault)
    \/ \E area \in BootAreas, fault \in BOOLEAN : BootMicDataPull(area, fault)

SpecBoot == InitBoot /\ [][NextBoot]_vars

(***************************************************************************)
(* Claims on the ring, calls in sequence (SpecRing).                       *)
(***************************************************************************)
\* the valid bytes of the ring, oldest first
RingContents(md) ==
    [k \in 1..md.data_len |-> md.buffer[(md.index_start + k - 1) % N]]

\* C1: the bytes the callback delivers (the data_to_be_fill bytes before the
\* zero padding), concatenated in call order, are a prefix of the bytes add
\* accepted, concatenated in call order, counted from the last reset: every
\* delivery is the head of the accepted bytes not yet delivered.
C1_FifoPrefix == fifo_ok

\* C1 witness: a delivery of several bytes read across the end of the storage
\* has been checked against pending, and bytes are still pending after it
C1_Witness ==
    /\ last.op = "mic_data_add_callback"
    /\ last.fill >= 2
    /\ last.wrap
    /\ Len(pending) > 0
    /\ \E k \in 1..last.fill : out[k] = 1
    /\ \E k \in 1..last.fill : out[k] = 0

\* C4: add on a ring with data_len < N accepts min(len, N - data_len) bytes,
\* stores them from index_end on (wrapping at N), advances index_end by that
\* count modulo N, adds the count to data_len, drops the rest of the chunk and
\* leaves the data_len unread bytes as they were.
C4_AppendAccepts ==
    [][(last'.op = "mic_data_add" /\ headset_control_mic_data.data_len < N) =>
        LET md       == headset_control_mic_data
            accepted == Min(last'.len, N - md.data_len)
        IN /\ last'.fill = accepted
           /\ Len(pending') = Len(pending) + accepted
           /\ \A i \in 0..(accepted - 1) :
                 headset_control_mic_data'.buffer[(md.index_end + i) % N]
                    = pending'[Len(pending) + i + 1]
           /\ headset_control_mic_data'.index_end = (md.index_end + accepted) % N
           /\ headset_control_mic_data'.data_len = md.data_len + accepted
           /\ headset_control_mic_data'.index_start = md.index_start
           /\ \A i \in 0..(md.data_len - 1) :
                 headset_control_mic_data'.buffer[(md.index_start + i) % N]
                    = md.buffer[(md.index_start + i) % N]]_vars

\* C4 witness: a chunk longer than the room was cut, stored across the end of
\* the storage, next to unread bytes
C4_Witness ==
    /\ last.op = "mic_data_add"
    /\ 0 < last.fill
    /\ last.fill < last.len
    /\ last.wrap
    /\ headset_control_mic_data.data_len = N
    /\ headset_control_mic_data.index_start = 2

\* C6: the callback on a ring with data_len > 0 returns WICED_TRUE and leaves
\* len bytes in the area: the min(data_len, len) oldest bytes in order, then
\* zeros; index_start advances by that count modulo N and data_len drops by it.
C6_ConsumeDelivers ==
    [][(last'.op = "mic_data_add_callback" /\ headset_control_mic_data.data_len > 0) =>
        LET md   == headset_control_mic_data
            real == Min(md.data_len, last'.len)
        IN /\ last'.ret = TRUE
           /\ Len(out') = last'.len
           /\ \A k \in 1..real : out'[k] = md.buffer[(md.index_start + k - 1) % N]
           /\ \A k \in (real + 1)..last'.len : out'[k] = 0
           /\ headset_control_mic_data'.index_start = (md.index_start + real) % N
           /\ headset_control_mic_data'.data_len = md.data_len - real
           /\ headset_control_mic_data'.index_end = md.index_end
           /\ headset_control_mic_data'.buffer = md.buffer]_vars

\* C6 witness: fewer bytes than asked for were there, they were read across the
\* end of the storage, a 1 among them, and the area held 1s before the call
C6_Witness ==
    /\ last.op = "mic_data_add_callback"
    /\ last.ret
    /\ 0 < last.fill
    /\ last.fill < last.len
    /\ last.wrap
    /\ \A k \in 1..last.len : last.area[k] = 1
    /\ \E k \in 1..last.fill : out[k] = 1
    /\ \A k \in (last.fill + 1)..last.len : out[k] = 0

C8_WrapRoundTrip ==
    [][/\ (last'.op = "mic_data_add" /\ last'.wrap) =>
            /\ RingContents(headset_control_mic_data') = pending'
            /\ headset_control_mic_data'.data_len
                  = headset_control_mic_data.data_len + last'.fill
       /\ (last'.op = "mic_data_add_callback" /\ last'.wrap) =>
            /\ SubSeq(out', 1, last'.fill) = SubSeq(pending, 1, last'.fill)
            /\ RingContents(headset_control_mic_data') = pending'
            /\ headset_control_mic_data'.data_len
                  = headset_control_mic_data.data_len - last'.fill]_vars

\* C8 witness: the callback read across the boundary bytes that one add had
\* stored across it, a 0 and a 1 among them
C8_Witness ==
    /\ last.op = "mic_data_add_callback"
    /\ last.wrap
    /\ last.seam
    /\ fifo_ok
    /\ \E k \in 1..last.fill : out[k] = 1
    /\ \E k \in 1..last.fill : out[k] = 0

\* C9: reset (run on BTM_SCO_DISCONNECTED_EVT) leaves data_len = 0,
\* index_start = 0, index_end = 0 and the storage all zero, and the callback
\* called right after it returns WICED_FALSE.
C9_Reset ==
    [][/\ last'.op = "BTM_SCO_DISCONNECTED_EVT" =>
            /\ headset_control_mic_data'.data_len = 0
            /\ headset_control_mic_data'.index_start = 0
            /\ headset_control_mic_data'.index_end = 0
            /\ headset_control_mic_data'.buffer = ZeroBuffer
       /\ (last.op = "BTM_SCO_DISCONNECTED_EVT" /\ last'.op = "mic_data_add_callback") =>
            last'.ret = FALSE]_vars

\* C9 witness: the callback ran right after a reset that discarded unread bytes
C9_Witness ==
    /\ last.op = "mic_data_add_callback"
    /\ last.after_reset
    /\ ~last.ret
    /\ last.len > 0

(***************************************************************************)
(* Claims on the ring, the three contexts interleaved (SpecConc).          *)
(***************************************************************************)
\* between lock and unlock of headset_control_mic_data_add
InAdd == pc["command"] \in {"add_check", "add_count", "add_copy", "add_len",
                            "add_idx", "add_wrapcheck", "add_wrap", "add_unlock"}

\* between lock and unlock of headset_control_mic_data_add_callback
InCallback == pc["audio"] \in {"cb_check", "cb_count", "cb_copy", "cb_pad", "cb_len",
                               "cb_idx", "cb_wrapcheck", "cb_wrap", "cb_unlock"}

\* headset_control_mic_data_reset has written and has more to write
InReset == pc["management"] \in {"rst_len", "rst_start", "rst_end"}

\* no context is inside an operation
Quiescent == \A c \in Contexts : pc[c] = "idle"

\* C2: add, callback and reset are mutually exclusive on the ring: none of them
\* is at work on data_len, the indices or the storage while another is inside
\* its critical section; in particular the reset run on SCO disconnect never
\* overlaps an add or a callback in progress.
C2_MutualExclusion ==
    /\ ~(InAdd /\ InCallback)
    /\ ~(InReset /\ InAdd)
    /\ ~(InReset /\ InCallback)

\* C3: whenever no context is inside an operation, whatever the interleaving
\* of add, callback and reset was, 0 <= data_len <= N and index_start and
\* index_end are in [0, N).
C3_RingBounds == Quiescent => RingSane(headset_control_mic_data)

\* C5: add on a ring with data_len = N is a no-op: the statement that finds the
\* ring full returns at once, with storage, index_start, index_end and data_len
\* unchanged and the mutex released.
C5_FullIsNoOp ==
    [][(/\ pc["command"] = "add_check"
        /\ pc'["command"] # "add_check"
        /\ headset_control_mic_data.data_len = N) =>
            /\ pc'["command"] = "idle"
            /\ headset_control_mic_data' = headset_control_mic_data
            /\ mutex_owner' = "none"]_vars

\* C5 witness: an add has returned on the full-ring path, the ring is still
\* full and the mutex is free
C5_Witness ==
    /\ last.op = "mic_data_add"
    /\ ~last.ret
    /\ pc["command"] = "idle"
    /\ mutex_owner = "none"
    /\ headset_control_mic_data.data_len = N

\* C20: every add and every callback call completes: the mutex taken at
\* entry is released once, by the step that returns, on the full-ring path,
\* the empty-ring path and the normal path, so that no call returns holding
\* it; with a fair scheduler and a fair mutex a command and an audio pull
\* contending for the ring both return.
C20_CallsComplete ==
    /\ [][\A c \in {"command", "audio"} :
            /\ (mutex_owner = c /\ mutex_owner' # c) => pc'[c] = "idle"
            /\ (pc[c] # "idle" /\ pc'[c] = "idle") =>
                   (mutex_owner = c /\ mutex_owner' = "none")]_vars
    /\ \A c \in {"command", "audio"} : (pc[c] # "idle") ~> (pc[c] = "idle")

\* a callback has returned on the empty-ring path while an add waits for the
\* mutex it has just released
C20_Witness ==
    /\ last.op = "mic_data_add_callback"
    /\ ~last.ret
    /\ pc["audio"] = "idle"
    /\ pc["command"] = "add_lock"
    /\ mutex_owner = "none"

\* C28: whenever no context is inside add, the callback or reset, under any
\* interleaving of the three, the indices and the length agree:
\* index_end = (index_start + data_len) mod N.
C28_CursorsAgree ==
    Quiescent =>
        headset_control_mic_data.index_end =
            (headset_control_mic_data.index_start
                + headset_control_mic_data.data_len) % N

(***************************************************************************)
(* Claims on the length of a MIC_DATA payload (SpecRing).                  *)
(***************************************************************************)
\* C26: a MIC_DATA command with a payload of L bytes, L any 32-bit length,
\* 65536 and more included, appends min(L, N - data_len) bytes to the ring.
C26_AppendsMinOfRawLength ==
    [][last'.op = "mic_data_add" =>
          last'.fill = Min(last'.raw_len, N - headset_control_mic_data.data_len)]_vars

(***************************************************************************)
(* Claims on the SCO events (SpecRing).                                    *)
(***************************************************************************)
\* C19: each of the four SCO events is forwarded once to
\* hf_sco_management_callback; the ring is reset exactly on
\* BTM_SCO_DISCONNECTED_EVT, after the forward, and the three other events
\* leave data_len, the indices and the storage as they were.
C19_ScoForwardThenReset ==
    [][last'.op \in ScoEvents =>
          /\ last'.calls[1] = <<"hf_sco_management_callback", last'.op>>
          /\ \A k \in 2..Len(last'.calls) :
                last'.calls[k] = <<"headset_control_mic_data_reset">>
          /\ IF last'.op = "BTM_SCO_DISCONNECTED_EVT"
             THEN /\ Len(last'.calls) = 2
                  /\ headset_control_mic_data'.data_len = 0
                  /\ headset_control_mic_data'.index_start = 0
                  /\ headset_control_mic_data'.index_end = 0
                  /\ headset_control_mic_data'.buffer = ZeroBuffer
             ELSE /\ Len(last'.calls) = 1
                  /\ headset_control_mic_data' = headset_control_mic_data]_vars

\* a connection change with bytes queued across the end of the storage
C19_Witness ==
    /\ last.op = "BTM_SCO_CONNECTION_CHANGE_EVT"
    /\ Len(last.calls) = 1
    /\ headset_control_mic_data.data_len = 2
    /\ headset_control_mic_data.index_start = N - 1
    /\ headset_control_mic_data.buffer[N - 1] = 1

(***************************************************************************)
(* Claims on the local IRK store (Spec).                                   *)
(***************************************************************************)
\* C10: as long as no restore and no update has succeeded (before restore has
\* run at all, and after a failed restore), an identity-key request answers
\* WICED_BT_NO_RESOURCES and leaves the event's key field as it was.
C10_RequestNoResources ==
    (last.op = "BTM_LOCAL_IDENTITY_KEYS_REQUEST_EVT" /\ ~irk_ok_ever) =>
        /\ last.result = WICED_BT_NO_RESOURCES
        /\ last.key = last.key_in

\* C11: an update with a key that differs from the cached one calls the NVRAM
\* write once; when the write stored the whole key with a success status the
\* cache holds the new key and a success status, and when the write failed
\* or was short the cached key and status are what they were before.
C11_UpdateDiffering ==
    [][(last'.op = "BTM_LOCAL_IDENTITY_KEYS_UPDATE_EVT"
          /\ last'.key_in # local_irk_info.local_irk) =>
          /\ last'.wrote
          /\ IF last'.len = BTM_SECURITY_LOCAL_KEY_DATA_LEN
                /\ last'.result = WICED_BT_SUCCESS
             THEN local_irk_info' = [local_irk |-> last'.key_in,
                                     result |-> WICED_BT_SUCCESS]
             ELSE local_irk_info' = local_irk_info]_vars

\* a short write reported as success has left a restored or updated key cached
C11_Witness ==
    /\ last.op = "BTM_LOCAL_IDENTITY_KEYS_UPDATE_EVT"
    /\ last.wrote
    /\ last.result = WICED_BT_SUCCESS
    /\ last.len # BTM_SECURITY_LOCAL_KEY_DATA_LEN
    /\ last.key_in # local_irk_info.local_irk
    /\ local_irk_info.local_irk # "zero"

\* C12: an update with the key already cached calls no NVRAM write and leaves
\* the cached key and status as they were, however often it is repeated.
C12_UpdateSameKey ==
    [][(last'.op = "BTM_LOCAL_IDENTITY_KEYS_UPDATE_EVT"
          /\ last'.key_in = local_irk_info.local_irk) =>
          /\ ~last'.wrote
          /\ local_irk_info' = local_irk_info
          /\ nvram' = nvram]_vars

\* the same key again, after an update that stored it
C12_Witness ==
    /\ last.op = "BTM_LOCAL_IDENTITY_KEYS_UPDATE_EVT"
    /\ ~last.wrote
    /\ last.key_in = local_irk_info.local_irk
    /\ nvram = last.key_in
    /\ irk_last = "success"

\* C13: an identity-key request returns the cached key with a success status
\* exactly when the latest restore or successful update left the cached
\* status at success; otherwise it returns WICED_BT_NO_RESOURCES and the
\* key field of the event is as the stack passed it.
C13_RequestIffLastSucceeded ==
    last.op = "BTM_LOCAL_IDENTITY_KEYS_REQUEST_EVT" =>
        IF irk_last = "success"
        THEN last.result = WICED_BT_SUCCESS /\ last.key = local_irk_info.local_irk
        ELSE last.result = WICED_BT_NO_RESOURCES /\ last.key = last.key_in

\* C30: with NVRAM writes that succeed, the identity-key request that
\* follows an update event carrying key k answers success with k, whatever
\* the restore before did and whatever the cache held, a cache with the
\* bytes of k and a failure status included.
C30_RequestAfterUpdate ==
    [][(/\ last.op = "BTM_LOCAL_IDENTITY_KEYS_UPDATE_EVT"
        /\ (last.wrote => last.ret)
        /\ last'.op = "BTM_LOCAL_IDENTITY_KEYS_REQUEST_EVT") =>
            /\ last'.result = WICED_BT_SUCCESS
            /\ last'.key = last.key_in]_vars

(***************************************************************************)
(* Claims on the pairing handlers (Spec).                                  *)
(***************************************************************************)
CallsOf(fn) == {k \in 1..Len(last.calls) : last.calls[k][1] = fn}

\* C14: a security request is granted, and answered with success, exactly
\* when hci_control_cb.pairing_allowed is set; when it is clear there is no
\* grant and the handler returns an error status.
C14_SecurityRequestGate ==
    last.op = "BTM_SECURITY_REQUEST_EVT" =>
        IF last.pairing_allowed
        THEN /\ last.calls = << <<"wiced_bt_ble_security_grant", last.bd_addr,
                                  WICED_BT_SUCCESS>> >>
             /\ last.result = WICED_BT_SUCCESS
        ELSE /\ last.calls = <<>>
             /\ last.result # WICED_BT_SUCCESS

\* a request refused after the local key was stored
C14_Witness ==
    /\ last.op = "BTM_SECURITY_REQUEST_EVT"
    /\ ~last.pairing_allowed
    /\ last.result = WICED_BT_ERROR
    /\ irk_ok_ever

C16_ForwardIffSeeker ==
    last.op = "BTM_USER_CONFIRMATION_REQUEST_EVT" =>
        /\ (CallsOf("wiced_bt_gfps_provider_seeker_passkey_set") # {})
              = (~last.just_works /\ last.seeker)
        /\ \A k \in CallsOf("wiced_bt_gfps_provider_seeker_passkey_set") :
              /\ last.calls[k][2] = last.numeric_value
              /\ \A r \in CallsOf("wiced_bt_dev_confirm_req_reply") : k < r

\* C16, amended: the passkey of a request that is not just-works is forwarded
\* exactly when the build has FASTPAIR_ENABLE, whatever the seeker mode, and
\* then before the reply; a just-works request forwards nothing.
C16_ForwardIffFastPairBuild ==
    last.op = "BTM_USER_CONFIRMATION_REQUEST_EVT" =>
        /\ (CallsOf("wiced_bt_gfps_provider_seeker_passkey_set") # {})
              = (~last.just_works /\ build.FASTPAIR_ENABLE)
        /\ \A k \in CallsOf("wiced_bt_gfps_provider_seeker_passkey_set") :
              /\ last.calls[k][2] = last.numeric_value
              /\ \A r \in CallsOf("wiced_bt_dev_confirm_req_reply") : k < r

\* the passkey forwarded although the seeker mode is not active
C16_Witness ==
    /\ last.op = "BTM_USER_CONFIRMATION_REQUEST_EVT"
    /\ ~last.just_works
    /\ ~last.seeker
    /\ last.numeric_value = 999999
    /\ CallsOf("wiced_bt_gfps_provider_seeker_passkey_set") = {1}

\* C17: a BR/EDR IO-capability request is answered with display-yes/no in
\* seeker mode and with no IO capability otherwise, in both cases with
\* single-profile general bonding, no OOB data and a success status.
C17_BrEdrIoCapabilities ==
    last.op = "BTM_PAIRING_IO_CAPABILITIES_BR_EDR_REQUEST_EVT" =>
        /\ last.answer.local_io_cap =
              IF last.seeker THEN "BTM_IO_CAPABILITIES_DISPLAY_AND_YES_NO_INPUT"
              ELSE "BTM_IO_CAPABILITIES_NONE"
        /\ last.answer.auth_req = "BTM_AUTH_SINGLE_PROFILE_GENERAL_BONDING_NO"
        /\ last.answer.oob_data = FALSE
        /\ last.result = WICED_BT_SUCCESS

\* a request in seeker mode
C17_Witness ==
    /\ last.op = "BTM_PAIRING_IO_CAPABILITIES_BR_EDR_REQUEST_EVT"
    /\ last.seeker
    /\ last.answer.local_io_cap = "BTM_IO_CAPABILITIES_DISPLAY_AND_YES_NO_INPUT"

\* C18: an LE IO-capability request is always answered with no IO
\* capability, no OOB, secure connections with MITM and bonding, key size 16
\* and the same four keys for initiator and responder, whatever the seeker
\* mode, the pairing-allowed flag and the events before.
C18_LeIoCapabilities ==
    last.op = "BTM_PAIRING_IO_CAPABILITIES_BLE_REQUEST_EVT" =>
        /\ last.answer.local_io_cap = "BTM_IO_CAPABILITIES_NONE"
        /\ last.answer.oob_data = "BTM_OOB_NONE"
        /\ last.answer.auth_req = "BTM_LE_AUTH_REQ_SC_MITM_BOND"
        /\ last.answer.max_key_size = 16
        /\ last.answer.init_keys = last.answer.resp_keys
        /\ Cardinality(last.answer.init_keys) = 4

\* a request in seeker mode with pairing not allowed, after a failed restore
C18_Witness ==
    /\ last.op = "BTM_PAIRING_IO_CAPABILITIES_BLE_REQUEST_EVT"
    /\ last.seeker
    /\ ~last.pairing_allowed
    /\ irk_last = "failure"
    /\ last.answer.max_key_size = 16

(***************************************************************************)
(* Claims on start-up (Spec).                                              *)
(***************************************************************************)
\* C21: when the creation or the initialisation of the ring mutex fails in
\* btheadset_post_bt_init, start-up stops there: nothing of the rest of the
\* post-init configuration, of the button interface init and of the LED
\* init runs after the failing call.
C21_MutexFailureAborts ==
    (last.op = "BTM_ENABLED_EVT"
       /\ last.outcome \in {"mutex_create_error", "mutex_init_error"}) =>
        last.calls[Len(last.calls)] =
            IF last.outcome = "mutex_create_error" THEN "wiced_rtos_create_mutex"
            ELSE "wiced_rtos_init_mutex"

\* C22: a restore whose NVRAM read fails leaves the cached key and the cached
\* status as they were before the call.
C22_FailedRestoreKeepsCache ==
    [][(last'.op = "BT_START" /\ last'.ret /\ last'.result # WICED_BT_SUCCESS) =>
          local_irk_info' = local_irk_info]_vars

\* C23: a command with the wrong payload length for its opcode (START with
\* a payload, BUTTON with other than three bytes) is dropped: no collaborator
\* is called, and the ring, the key cache, the NVRAM item and the start-up
\* progress are as before.
C23_MalformedDropped ==
    [][((last'.op = "BT_START" /\ last'.len # 0)
          \/ (last'.op = "BUTTON" /\ last'.len # ButtonLen)) =>
          /\ last'.calls = <<>>
          /\ headset_control_mic_data' = headset_control_mic_data
          /\ local_irk_info' = local_irk_info
          /\ nvram' = nvram
          /\ boot'.heap = boot.heap
          /\ boot'.stack = boot.stack
          /\ boot'.enable_evts = boot.enable_evts]_vars

\* a START with a payload, dropped after an earlier START had cached a key
C23_Witness ==
    /\ last.op = "BT_START"
    /\ last.len # 0
    /\ boot.stack
    /\ local_irk_info.result = WICED_BT_SUCCESS
    /\ local_irk_info.local_irk # "zero"

C25_MutexCreatedOnce == boot.mutexes <= 1

(***************************************************************************)
(* Claims on the ring during start-up (SpecBoot).                          *)
(***************************************************************************)
\* C29: no add and no callback reaches wiced_rtos_lock_mutex before the
\* mutex has been created and initialised: a MIC_DATA command before START
\* or before BTM_ENABLED_EVT, and a pull after the callback was registered
\* and the mutex creation failed, do not work on the ring without a mutex.
C29_NoLockWithoutMutex ==
    last.op \in {"mic_data_add", "mic_data_add_callback"} =>
        last.p_mutex = "mutex"

(***************************************************************************)
(* Claims on the pairing attempts (SpecPair).                              *)
(***************************************************************************)
InFlight(stage) == stage \in {"IOCapRequested", "ConfirmationPending"}

PairingEvents == {"BTM_PAIRING_IO_CAPABILITIES_BR_EDR_REQUEST_EVT",
                  "BTM_PAIRING_IO_CAPABILITIES_BLE_REQUEST_EVT",
                  "BTM_USER_CONFIRMATION_REQUEST_EVT"}

\* C27: pairing goes per attempt through Idle, IOCapRequested,
\* ConfirmationPending, Complete, one attempt at a time: the accept reply to a
\* user-confirmation request is sent only for an attempt whose IO-capability
\* request has been answered and which has not completed, and while the
\* attempt of one peer is in flight a pairing event of another peer is not
\* handled (no call is made and no answer is filled in).
C27_OneAttemptInOrder ==
    [][/\ (/\ last'.op = "BTM_USER_CONFIRMATION_REQUEST_EVT"
            /\ \E k \in 1..Len(last'.calls) :
                  last'.calls[k][1] = "wiced_bt_dev_confirm_req_reply") =>
                attempt[last'.bd_addr] = "IOCapRequested"
       /\ (/\ last'.op \in PairingEvents
            /\ \E q \in Peers \ {last'.bd_addr} : InFlight(attempt[q])) =>
                /\ last'.calls = <<>>
                /\ last'.answer = <<>>]_vars

====
